---- MODULE Spec2Model ----
(***************************************************************************)
(* Model of server.js: the Discord announcements relay.                    *)
(*                                                                         *)
(* Strings are sequences of one-character strings, so that the string      *)
(* functions of the program (safeFilename, sanitizeContent, trim, the      *)
(* classification regexes) are computed character by character.            *)
(***************************************************************************)
EXTENDS Integers, Sequences, FiniteSets, TLC

----------------------------------------------------------------------------
(* Characters and generic string helpers                                   *)

UpperChars == <<"A","B","C","D","E","F","G","H","I","J","K","L","M",
                "N","O","P","Q","R","S","T","U","V","W","X","Y","Z">>

LowerChars == <<"a","b","c","d","e","f","g","h","i","j","k","l","m",
                "n","o","p","q","r","s","t","u","v","w","x","y","z">>

DigitChars == {"0","1","2","3","4","5","6","7","8","9"}

WhiteChars == {" ", "\n", "\t"}

Range(s) == {s[i] : i \in 1..Len(s)}

Min(a, b) == IF a < b THEN a ELSE b

\* String.prototype.toLowerCase on one character
ToLowerChar(c) ==
  IF \E i \in 1..Len(UpperChars) : UpperChars[i] = c
  THEN LowerChars[CHOOSE i \in 1..Len(UpperChars) : UpperChars[i] = c]
  ELSE c

ToLower(s) == [i \in 1..Len(s) |-> ToLowerChar(s[i])]

\* String.prototype.startsWith
StartsWith(s, p) == Len(s) >= Len(p) /\ SubSeq(s, 1, Len(p)) = p

\* p occurs in s at position i
OccursAt(s, p, i) == i >= 1 /\ i + Len(p) - 1 <= Len(s) /\ SubSeq(s, i, i + Len(p) - 1) = p

\* String.prototype.trim
Trim(s) ==
  LET keep == {i \in 1..Len(s) : s[i] \notin WhiteChars}
  IN IF keep = {} THEN <<>>
     ELSE LET lo == CHOOSE i \in keep : \A j \in keep : i <= j
              hi == CHOOSE i \in keep : \A j \in keep : i >= j
          IN SubSeq(s, lo, hi)

\* url.split("/").pop(): the part after the last "/"
LastSegment(s) ==
  LET slashes == {i \in 1..Len(s) : s[i] = "/"}
  IN IF slashes = {} THEN s
     ELSE LET last == CHOOSE i \in slashes : \A j \in slashes : i >= j
          IN SubSeq(s, last + 1, Len(s))

----------------------------------------------------------------------------
(* safeFilename, server.js 61-66                                           *)

SafeNameCap == 180

\* the character class [a-z0-9._-] with the i flag
IsSafeChar(c) ==
  \/ c \in Range(LowerChars)
  \/ c \in Range(UpperChars)
  \/ c \in DigitChars
  \/ c \in {".", "_", "-"}

\* .replace(/[^a-z0-9._-]+/gi, "_"): every run of other characters becomes one "_"
ReplaceUnsafeRuns(s) ==
  LET f[i \in 0..Len(s)] ==
        IF i = 0 THEN <<>>
        ELSE IF IsSafeChar(s[i]) THEN Append(f[i-1], s[i])
        ELSE IF i > 1 /\ ~IsSafeChar(s[i-1]) THEN f[i-1]
        ELSE Append(f[i-1], "_")
  IN f[Len(s)]

\* .replace(/^_+|_+$/g, ""): leading and trailing underscores removed
StripUnderscores(s) ==
  LET keep == {i \in 1..Len(s) : s[i] # "_"}
  IN IF keep = {} THEN <<>>
     ELSE LET lo == CHOOSE i \in keep : \A j \in keep : i <= j
              hi == CHOOSE i \in keep : \A j \in keep : i >= j
          IN SubSeq(s, lo, hi)

safeFilename(name) ==
  LET t == StripUnderscores(ReplaceUnsafeRuns(name))
  IN SubSeq(t, 1, Min(Len(t), SafeNameCap))

----------------------------------------------------------------------------
(* sanitizeContent, server.js 91-98                                        *)

EscLt == <<"\\","u","0","0","3","c">>
EscGt == <<"\\","u","0","0","3","e">>
AtUser == <<"@","u","s","e","r">>
AtRole == <<"@","r","o","l","e">>
HashChannel == <<"#","c","h","a","n","n","e","l">>

\* number of digits of s from position i on (\d+ is greedy)
DigitRun(s, i) ==
  LET stop == {j \in i..Len(s) : s[j] \notin DigitChars}
  IN IF stop = {} THEN Len(s) - i + 1
     ELSE (CHOOSE j \in stop : \A k \in stop : j <= k) - i

\* length of the match of <prefix>\d+> at position i, 0 when there is none
TokenLen(s, i, prefix) ==
  IF ~OccursAt(s, prefix, i) THEN 0
  ELSE LET d == DigitRun(s, i + Len(prefix))
           close == i + Len(prefix) + d
       IN IF d > 0 /\ close <= Len(s) /\ s[close] = ">" THEN Len(prefix) + d + 1 ELSE 0

\* length of the match of the pattern named pat at position i of s, 0 for none
MatchLen(pat, s, i) ==
  CASE pat = "esc_lt"  -> IF OccursAt(s, EscLt, i) THEN Len(EscLt) ELSE 0
    [] pat = "esc_gt"  -> IF OccursAt(s, EscGt, i) THEN Len(EscGt) ELSE 0
    [] pat = "user"    -> LET a == TokenLen(s, i, <<"<","@","!">>)
                          IN IF a > 0 THEN a ELSE TokenLen(s, i, <<"<","@">>)
    [] pat = "role"    -> TokenLen(s, i, <<"<","@","&">>)
    [] pat = "channel" -> TokenLen(s, i, <<"<","#">>)

\* String.prototype.replace with a global regex: leftmost matches, left to right
RECURSIVE ReplaceFrom(_, _, _, _)
ReplaceFrom(pat, s, i, rep) ==
  IF i > Len(s) THEN <<>>
  ELSE LET n == MatchLen(pat, s, i)
       IN IF n > 0 THEN rep \o ReplaceFrom(pat, s, i + n, rep)
          ELSE <<s[i]>> \o ReplaceFrom(pat, s, i + 1, rep)

ReplaceAll(pat, s, rep) == ReplaceFrom(pat, s, 1, rep)

\* the faulty variant of sanitizeContent: the mention tokens are replaced before the
\* escape sequences are undone
sanitizeContentMentionsFirst(text) ==
  LET c == ReplaceAll("user", text, AtUser)
      d == ReplaceAll("role", c, AtRole)
      e == ReplaceAll("channel", d, HashChannel)
      a == ReplaceAll("esc_lt", e, <<"<">>)
  IN ReplaceAll("esc_gt", a, <<">">>)

sanitizeContent(text) ==
  LET a == ReplaceAll("esc_lt", text, <<"<">>)
      b == ReplaceAll("esc_gt", a, <<">">>)
      c == ReplaceAll("user", b, AtUser)
      d == ReplaceAll("role", c, AtRole)
  IN ReplaceAll("channel", d, HashChannel)

----------------------------------------------------------------------------
(* String literals of the program                                          *)

DownloadsPrefix == <<"/","d","o","w","n","l","o","a","d","s","/">>
DownloadName == <<"d","o","w","n","l","o","a","d">>
ImagePrefix == <<"i","m","a","g","e","/">>
VideoPrefix == <<"v","i","d","e","o","/">>
ImageGif == <<"i","m","a","g","e","/","g","i","f">>
DotGif == <<".","g","i","f">>

ImageExts == { <<"p","n","g">>, <<"j","p","g">>, <<"j","p","e","g">>,
               <<"g","i","f">>, <<"w","e","b","p">> }
GifExts == { <<"g","i","f">> }
VideoExts == { <<"m","p","4">>, <<"w","e","b","m">>, <<"m","o","v">> }

\* /\.(e1|e2|...)(\?|$)/i .test(url)
ExtTest(url, exts) ==
  LET l == ToLower(url)
  IN \E i \in 1..Len(l) : \E e \in exts :
       /\ l[i] = "."
       /\ OccursAt(l, e, i + 1)
       /\ (i + Len(e) = Len(l) \/ l[i + Len(e) + 1] = "?")

\* /\.gif/i .test(url)
HasDotGif(url) == \E i \in 1..Len(url) : OccursAt(ToLower(url), DotGif, i)

----------------------------------------------------------------------------
(* The mirrored files: mirrorToLocal, server.js 68-83                      *)

NoFile == [kind |-> "none"]
PartialFile == [kind |-> "partial"]
FileOf(url, bytes) == [kind |-> "full", url |-> url, bytes |-> bytes]

\* the faulty variant of baseName: the name is taken from the url, never from the filename
baseNameOfUrl(url, filename) ==
  safeFilename(IF LastSegment(url) # <<>> THEN LastSegment(url) ELSE DownloadName)

\* line 69: safeFilename(filename || url.split("/").pop() || "download")
baseName(url, filename) ==
  safeFilename(IF filename # <<>> THEN filename
               ELSE IF LastSegment(url) # <<>> THEN LastSegment(url)
               ELSE DownloadName)

\* the faulty variant of localName: the message id is left out
localNameNoId(url, messageId, filename) == baseName(url, filename)

\* line 70: `${messageId}-${baseName}`
localName(url, messageId, filename) == messageId \o <<"-">> \o baseName(url, filename)

\* lines 74 and 82: `/downloads/${localName}`
localRef(name) == DownloadsPrefix \o name

\* line 140: a.filename || "download"
attName(a) == IF a.filename # <<>> THEN a.filename ELSE DownloadName

\* the local name mirrorToLocal computes for attachment a of message m (lines 144-148)
KeyOf(m, a) == localName(a.url, m.id, attName(a))

\* the faulty variant of existsSync: the file is never found
existsSyncNever(dsk, name) == FALSE

\* the faulty variant of existsSync: the file is always found
existsSyncAlways(dsk, name) == TRUE

\* line 74: fs.existsSync(localPath)
existsSync(dsk, name) == dsk[name] # NoFile

----------------------------------------------------------------------------
(* getMediaFromMessage, server.js 126-184: the synchronous parts           *)

\* the faulty variant of add: no look at seen
addAlways(out, item) == IF item.url = <<>> THEN out ELSE Append(out, item)

\* lines 130-134: add(url, type, extra), with seen = the urls of out
add(out, item) ==
  IF item.url = <<>> \/ \E n \in 1..Len(out) : out[n].url = item.url
  THEN out
  ELSE Append(out, item)

\* the faulty variant of isImage: the content-type decides alone when it is present
isImageByTypeFirst(ct, originalUrl) ==
  IF ct # <<>> THEN StartsWith(ct, ImagePrefix) ELSE ExtTest(originalUrl, ImageExts)

\* line 154: ct.startsWith("image/") || /\.(png|jpe?g|gif|webp)(\?|$)/i.test(originalUrl)
isImage(ct, originalUrl) == StartsWith(ct, ImagePrefix) \/ ExtTest(originalUrl, ImageExts)

\* line 155: ct === "image/gif" || /\.gif(\?|$)/i.test(originalUrl)
isGif(ct, originalUrl) == ct = ImageGif \/ ExtTest(originalUrl, GifExts)

\* line 160: ct.startsWith("video/") || /\.(mp4|webm|mov)(\?|$)/i.test(originalUrl)
isVideo(ct, originalUrl) == StartsWith(ct, VideoPrefix) \/ ExtTest(originalUrl, VideoExts)

\* lines 139, 154-166: the media item of attachment a, given the url it resolved to
attachmentItem(a, localUrl) ==
  LET ct == ToLower(a.content_type)
  IN IF isImage(ct, a.url)
     THEN [url |-> localUrl, type |-> IF isGif(ct, a.url) THEN "gif" ELSE "image"]
     ELSE IF isVideo(ct, a.url)
     THEN [url |-> localUrl, type |-> "video"]
     ELSE [url |-> localUrl, type |-> "file", name |-> attName(a), contentType |-> ct]

\* the faulty variant of embedItems: a video embed adds its image as well
embedItemsWithImage(e) ==
  IF e.video # <<>>
  THEN <<[url |-> e.video, type |-> "video"]>>
       \o (IF e.image # <<>> THEN <<[url |-> e.image, type |-> "image"]>> ELSE <<>>)
  ELSE <<>>

\* the faulty variant of embedItems: the embed's media is given a local url
embedItemsLocal(e) ==
  IF e.video # <<>>
  THEN <<[url |-> DownloadsPrefix \o LastSegment(e.video), type |-> "video"]>>
  ELSE IF e.image # <<>>
  THEN <<[url |-> DownloadsPrefix \o LastSegment(e.image), type |-> "image"]>>
  ELSE IF e.thumbnail # <<>>
  THEN <<[url |-> DownloadsPrefix \o LastSegment(e.thumbnail), type |-> "image"]>>
  ELSE <<>>

\* lines 171-180: the items one embed hands to add
embedItems(e) ==
  IF e.video # <<>>
  THEN <<[url |-> e.video, type |-> "video"]>>
  ELSE IF e.image # <<>>
  THEN <<[url |-> e.image, type |-> IF HasDotGif(e.image) THEN "gif" ELSE "image"]>>
  ELSE IF e.thumbnail # <<>>
  THEN <<[url |-> e.thumbnail, type |-> IF HasDotGif(e.thumbnail) THEN "gif" ELSE "image"]>>
  ELSE <<>>

----------------------------------------------------------------------------
(* The upstream channel: the messages the Discord API may return           *)

Digit(n) == CASE n = 0 -> "0" [] n = 1 -> "1" [] n = 2 -> "2" [] n = 3 -> "3"
              [] n = 4 -> "4" [] n = 5 -> "5" [] n = 6 -> "6" [] n = 7 -> "7"
              [] n = 8 -> "8" [] n = 9 -> "9"

\* the decimal snowflake of a two-digit number
IdOf(n) == <<Digit(n \div 10), Digit(n % 10)>>

NoEmbedFields == [video |-> <<>>, image |-> <<>>, thumbnail |-> <<>>,
                  title |-> <<>>, description |-> <<>>]

Msg(id, type, content, attachments, embeds) ==
  [id |-> id, type |-> type, content |-> content, timestamp |-> id,
   attachments |-> attachments, embeds |-> embeds]

\* a plain text message
TextMsg(n) == Msg(IdOf(n), 0, <<"n","e","w","s"," ">> \o IdOf(n), <<>>, <<>>)

UrlA == <<"c","/","a",".","p","n","g">>
UrlK == <<"c","/","k",".","p","n","g">>
UrlG == <<"c","/","g",".","G","I","F","?","v">>
UrlN == <<"c","/","n">>
UrlM == <<"c","/","m">>
UrlV == <<"v","/","1">>
UrlI == <<"i","/","1",".","g","i","f","x">>
UrlJ == <<"i","/","2">>
UrlT == <<"i","/","t">>

NameA == <<"a",".","p","n","g">>
TypePng == <<"i","m","a","g","e","/","p","n","g">>
TypeText == <<"t","e","x","t","/","x">>
TypeVideo == <<"V","i","d","e","o","/","m","p","4">>

\* one uploaded image
MsgA == Msg(<<"0","1">>, 0, <<"h","i">>,
            <<[url |-> UrlA, content_type |-> TypePng, filename |-> NameA]>>, <<>>)

\* the same filename under another message id; a .png url with a text content-type
MsgC == Msg(<<"0","2">>, 0, <<>>,
            <<[url |-> UrlK, content_type |-> TypeText, filename |-> NameA]>>, <<>>)

\* two uploads: no content-type and a .GIF url; an upper-case video content-type and a
\* filename that sanitizes to the first one's
MsgB == Msg(<<"0","3">>, 0, <<"\\","u","0","0","3","c","@","7","\\","u","0","0","3","e">>,
            <<[url |-> UrlG, content_type |-> <<>>, filename |-> <<"x"," ","y",".","g","i","f">>],
              [url |-> UrlN, content_type |-> TypeVideo, filename |-> <<"x","_","y",".","g","i","f">>]>>,
            <<>>)

\* a text content-type, a url without extension, the filename of MsgA and MsgC
MsgF == Msg(<<"0","9">>, 0, <<>>,
            <<[url |-> UrlM, content_type |-> TypeText, filename |-> NameA]>>, <<>>)

\* an upload and two embeds, the first with the url of the upload
UrlD == <<"c","/","d",".","p","n","g">>

MsgD == Msg(<<"1","0">>, 0, <<>>,
            <<[url |-> UrlD, content_type |-> TypePng, filename |-> NameA]>>,
            <<[NoEmbedFields EXCEPT !.image = UrlD],
              [NoEmbedFields EXCEPT !.thumbnail = UrlT]>>)

\* embeds only: a video embed with an image, the same video again, the image alone,
\* a thumbnail
MsgE == Msg(<<"0","4">>, 0, <<>>, <<>>,
            <<[NoEmbedFields EXCEPT !.video = UrlV, !.image = UrlI, !.title = <<"T">>],
              [NoEmbedFields EXCEPT !.video = UrlV, !.image = UrlJ],
              [NoEmbedFields EXCEPT !.image = UrlI],
              [NoEmbedFields EXCEPT !.thumbnail = UrlT]>>)

\* a single embed with a video, an image and a thumbnail
MsgV == Msg(<<"0","8">>, 0, <<>>, <<>>,
            <<[NoEmbedFields EXCEPT !.video = UrlV, !.image = UrlJ, !.thumbnail = UrlT]>>)

\* a default message with blank content and nothing else
MsgEmpty == Msg(<<"0","5">>, 0, <<" ">>, <<>>, <<>>)

\* a system message with nothing: dropped by the first filter
MsgSys == Msg(<<"0","6">>, 7, <<>>, <<>>, <<>>)

\* a system message with an embed
MsgSysE == Msg(<<"0","7">>, 7, <<>>, <<>>, <<[NoEmbedFields EXCEPT !.thumbnail = UrlT]>>)

\* a mention token with its angle brackets escaped: \u003c<sigil><id>\u003e
EscapedToken(sigil, id) == EscLt \o sigil \o id \o EscGt

\* text messages whose content holds escaped and plain mention tokens
MsgUser == Msg(<<"1","1">>, 0, EscapedToken(<<"@">>, <<"1","2","3">>), <<>>, <<>>)
MsgNick == Msg(<<"1","2">>, 0, EscapedToken(<<"@","!">>, <<"4","5">>), <<>>, <<>>)
MsgRole == Msg(<<"1","3">>, 0, EscapedToken(<<"@","&">>, <<"6">>), <<>>, <<>>)
MsgChan == Msg(<<"1","4">>, 0, EscapedToken(<<"#">>, <<"7","8">>), <<>>, <<>>)
MsgText == Msg(<<"1","5">>, 0,
               <<"a"," ","<","@","1",">"," ">> \o EscapedToken(<<"#">>, <<"2">>)
                 \o <<" ">> \o EscapedToken(<<"@">>, <<>>),
               <<>>, <<>>)

\* line 219: ?limit=20
PageLimit == 20

\* line 259: .slice(0, 8)
MaxAnnouncements == 8

\* line 259 keeps 8: the 10 messages of "tail" end with one the slice removes
TailLen == 10

FeedNames == {"one", "mix", "twenty", "tail", "mentions", "both", "two"}

\* the arrays in which more than one message has an upload
SiblingFeeds == {"two"}

FeedOf(f) ==
  CASE f = "one"    -> <<MsgA>>
    [] f = "mix"    -> <<MsgB, MsgE, MsgEmpty, MsgSys, MsgSysE, MsgV>>
    [] f = "twenty" -> <<MsgC>> \o [i \in 1..(PageLimit - 1) |-> TextMsg(20 + i)]
    [] f = "tail"   -> [i \in 1..(TailLen - 1) |-> TextMsg(50 + i)] \o <<MsgF>>
    [] f = "mentions" -> <<MsgUser, MsgNick, MsgRole, MsgChan, MsgText>>
    [] f = "both"   -> <<MsgD>>
    [] f = "two"    -> <<MsgD, MsgF>>

AllMessages == UNION {Range(FeedOf(f)) : f \in FeedNames}

\* every (local name, remote url) an attachment of the channel can lead to
Pairs == UNION {{<<KeyOf(m, m.attachments[i]), m.attachments[i].url>> :
                   i \in 1..Len(m.attachments)} : m \in AllMessages}

Keys == {p[1] : p \in Pairs}

----------------------------------------------------------------------------
(* discordFetchJson, server.js 100-112, and what the upstream may answer   *)

\* the raw bodies: nothing, text that is no JSON, a JSON object, the JSON array of the
\* channel's messages
UpstreamBodies == {"empty", "nonjson", "object", "messages"}

Answer(status, raw) == [kind |-> "http", status |-> status, raw |-> raw]

\* what the message-list call may end in: the fetch rejects, or an answer arrives
UpstreamAnswers ==
  {[kind |-> "reject"],
   Answer(200, "messages"), Answer(200, "object"), Answer(200, "nonjson"),
   Answer(404, "object"), Answer(404, "nonjson"), Answer(404, "empty")}

\* what the channel call may end in
ChannelAnswers ==
  {[kind |-> "reject"], Answer(200, "object"), Answer(404, "object"), Answer(404, "nonjson")}

\* Response.ok
IsOk(status) == status >= 200 /\ status <= 299

\* the faulty variant of discordFetchJson: a body that is no JSON keeps the upstream status
discordFetchJsonKeepStatus(a) ==
  [ok |-> IsOk(a.status) /\ a.raw # "nonjson", status |-> a.status,
   data |-> IF a.raw = "empty" THEN [json |-> "null"] ELSE [json |-> a.raw]]

\* lines 102-111, for an answer that arrived
discordFetchJson(a) ==
  IF a.raw = "nonjson"
  THEN [ok |-> FALSE, status |-> 502,
        data |-> [error |-> "Discord returned non-JSON", raw |-> a.raw]]
  ELSE [ok |-> IsOk(a.status), status |-> a.status,
        data |-> IF a.raw = "empty" THEN [json |-> "null"] ELSE [json |-> a.raw]]

\* lines 234-239: the first filter
keepMessage(m) == m.type = 0 \/ Len(m.embeds) > 0 \/ Len(m.attachments) > 0

\* lines 241-250: the content of the announcement of message m
contentOf(m) ==
  LET fallback == IF m.embeds = <<>> THEN <<>>
                  ELSE (IF m.embeds[1].title # <<>> THEN m.embeds[1].title \o <<"\n">> ELSE <<>>)
                       \o m.embeds[1].description
      contentRaw == IF m.content # <<>> /\ Len(Trim(m.content)) > 0 THEN m.content ELSE fallback
  IN Trim(sanitizeContent(contentRaw))

\* the kept messages, their contents and the local names of their attachments, per
\* upstream array
\* the faulty variant of KeptOf: only the messages the response has room for are mapped
KeptOfTruncated ==
  [f \in FeedNames |->
     LET k == SelectSeq(FeedOf(f), keepMessage)
     IN SubSeq(k, 1, Min(Len(k), MaxAnnouncements))]

KeptOf == [f \in FeedNames |-> SelectSeq(FeedOf(f), keepMessage)]
ContentsOf == [f \in FeedNames |-> [i \in 1..Len(KeptOf[f]) |-> contentOf(KeptOf[f][i])]]
KeysOf == [f \in FeedNames |-> [i \in 1..Len(KeptOf[f]) |->
             [n \in 1..Len(KeptOf[f][i].attachments) |->
                KeyOf(KeptOf[f][i], KeptOf[f][i].attachments[n])]]]

----------------------------------------------------------------------------
(* getMediaFromMessage as a task that stops at each await                  *)

\* ai: the attachment in hand; phase: "fetch" (awaiting fetch(url)), "body" (awaiting
\* arrayBuffer()), "settled", "rejected"; out: the media list so far.
\* origin, failed and rets are history: where each item of out came from, the
\* attachments whose mirror call threw, and the <<local name, reference>> pairs
\* the mirror calls of the task returned.  calls and fetched are history too: what
\* each mirror call made was made for, in order, and the attachments whose mirror
\* call issued a fetch.
NewTask == [ai |-> 1, phase |-> "run", out |-> <<>>, origin |-> <<>>, failed |-> {},
            rets |-> {}, calls |-> <<>>, fetched |-> {}]


\* add, keeping origin in step with out
addFrom(t, item, from) ==
  LET o == add(t.out, item)
  IN IF Len(o) = Len(t.out) THEN t
     ELSE [t EXCEPT !.out = o, !.origin = Append(t.origin, from)]

\* lines 170-181: the embeds of m, in order
RECURSIVE addEmbeds(_, _, _)
addEmbeds(t, m, j) ==
  IF j > Len(m.embeds) THEN t
  ELSE LET items == embedItems(m.embeds[j])
           f[n \in 0..Len(items)] ==
             IF n = 0 THEN t ELSE addFrom(f[n-1], items[n], <<"embed", j>>)
       IN addEmbeds(f[Len(items)], m, j + 1)

\* lines 154-167: classify attachment t.ai, add it under localUrl, go to the next one
addAttachment(t, m, localUrl) ==
  [addFrom(t, attachmentItem(m.attachments[t.ai], localUrl), <<"attachment", t.ai>>)
     EXCEPT !.ai = t.ai + 1, !.phase = "run"]

\* lines 74, 82 and 144-148: the mirror call of attachment t.ai, whose local name is
\* name, returned
mirrorReturned(t, m, name) ==
  addAttachment([t EXCEPT !.rets = t.rets \cup {<<name, localRef(name)>>}],
                m, localRef(name))

\* the faulty variant of mirrorThrew: no try/catch, the rejection leaves getMediaFromMessage
mirrorThrewUncaught(t, m) == [t EXCEPT !.phase = "rejected", !.failed = t.failed \cup {t.ai}]

\* the faulty variant of mirrorThrew: the failed call is made again
mirrorThrewRetry(t, m) == [t EXCEPT !.phase = "run", !.failed = t.failed \cup {t.ai}]

\* lines 149-152: the catch of the mirror call
mirrorThrew(t, m) ==
  addAttachment([t EXCEPT !.failed = t.failed \cup {t.ai}], m, m.attachments[t.ai].url)

\* lines 137-148, 74, 76 then 170-183: run the task of the i-th kept message until it
\* awaits a fetch or returns
RECURSIVE advance(_, _, _, _)
advance(t, feed, i, dsk) ==
  LET m == KeptOf[feed][i] IN
  IF t.phase = "rejected" THEN t
  ELSE IF t.ai > Len(m.attachments)
  THEN [addEmbeds(t, m, 1) EXCEPT !.phase = "settled"]
  ELSE LET name == KeysOf[feed][i][t.ai]
           called == [t EXCEPT !.calls = Append(@, <<"attachment", t.ai>>)]
       IN IF existsSync(dsk, name)
          THEN advance(mirrorReturned(called, m, name), feed, i, dsk)
          ELSE [called EXCEPT !.phase = "fetch", !.fetched = @ \cup {t.ai}]

----------------------------------------------------------------------------
(* The response of GET /api/announcements, server.js 232-262               *)

\* lines 248-253: the announcement of the i-th kept message
announcement(feed, i, t) ==
  [id |-> KeptOf[feed][i].id, content |-> ContentsOf[feed][i],
   timestamp |-> KeptOf[feed][i].timestamp, media |-> t.out]

\* the faulty variant of promiseAll: results in the order the tasks completed
promiseAllByCompletion(feed, tasks, order) ==
  [n \in 1..Len(order) |-> announcement(feed, order[n], tasks[order[n]])]

\* line 232: Promise.all resolves to the results by index
promiseAll(feed, tasks, order) ==
  [i \in 1..Len(tasks) |-> announcement(feed, i, tasks[i])]

\* line 258: the final filter
nonEmpty(an) == Len(an.content) > 0 \/ Len(an.media) > 0

\* the faulty variant of cleaned: no final filter
cleanedUnfiltered(mapped) == SubSeq(mapped, 1, Min(Len(mapped), MaxAnnouncements))

\* lines 257-259
cleaned(mapped) ==
  LET f == SelectSeq(mapped, nonEmpty)
  IN SubSeq(f, 1, Min(Len(f), MaxAnnouncements))

----------------------------------------------------------------------------
(* State                                                                   *)

\* the number of requests the model follows
MaxReq == 2

\* the bytes the attachments' host may serve for a url: it may serve other bytes at
\* any time, so each download draws its bytes from this set
Bytes == {"b1", "b2"}

Reqs == 1..MaxReq

VARIABLES
  env,        \* DISCORD_BOT_TOKEN and DISCORD_CHANNEL_ID are set (lines 39-40)
  channel,    \* the messages of the Discord channel, by the name of the array
  disk,       \* the downloads directory: local name -> file
  req,        \* the requests: position in the handler, tasks, response
  fetches     \* history: fetches issued by mirrorToLocal, per (local name, url)

vars == <<env, channel, disk, req, fetches>>

NoRes == [status |-> 0]

\* upCalls and up are history: the upstream calls made for the request and the
\* upstream answer it received; order is the order in which its tasks completed
IdleReq == [route |-> "none", pc |-> "idle", feed |-> "none", tasks |-> <<>>,
            order |-> <<>>, res |-> NoRes, up |-> [kind |-> "none"], upCalls |-> 0]

Init ==
  /\ env \in [token : BOOLEAN, channel : BOOLEAN]
  /\ disk = [k \in Keys |-> NoFile]
  /\ channel \in FeedNames \ SiblingFeeds
  /\ req = [r \in Reqs |-> IdleReq]
  /\ fetches = [p \in Pairs |-> 0]

\* the server configured, in front of a channel where two messages have an upload
InitTwo ==
  /\ env = [token |-> TRUE, channel |-> TRUE]
  /\ disk = [k \in Keys |-> NoFile]
  /\ channel \in SiblingFeeds
  /\ req = [r \in Reqs |-> IdleReq]
  /\ fetches = [p \in Pairs |-> 0]

----------------------------------------------------------------------------
(* Handler steps                                                           *)

\* the faulty variant of requireEnv: the channel identifier is not checked
requireEnvTokenOnly(e) == IF ~e.token THEN "Missing DISCORD_BOT_TOKEN" ELSE ""

\* lines 114-124: the error requireEnv answers with, "" when it returns true
requireEnv(e) ==
  IF ~e.token THEN "Missing DISCORD_BOT_TOKEN"
  ELSE IF ~e.channel THEN "Missing DISCORD_CHANNEL_ID"
  ELSE ""

\* lines 222-228 and 195-201
upstreamError(result) ==
  [status |-> result.status,
   body |-> [error |-> "Discord API error", status |-> result.status,
             details |-> result.data]]

\* line 264
serverError(detail) ==
  [status |-> 500, body |-> [error |-> "Server error", details |-> detail]]

\* the fetch a task is waiting on, if it waits on one
PairOf(feed, i, t) == <<KeysOf[feed][i][t.ai], KeptOf[feed][i].attachments[t.ai].url>>

\* the indices of old..new that became settled, appended in index order
RECURSIVE newlySettled(_, _, _)
newlySettled(old, new, i) ==
  IF i > Len(new) THEN <<>>
  ELSE (IF new[i].phase = "settled" /\ (i > Len(old) \/ old[i].phase # "settled")
        THEN <<i>> ELSE <<>>) \o newlySettled(old, new, i + 1)

\* the faulty variant of respond: the handler answers once one task has returned
respondFirstSettled(rq) ==
  IF rq.pc # "gather" THEN rq
  ELSE IF \E i \in 1..Len(rq.tasks) : rq.tasks[i].phase = "settled"
  THEN [rq EXCEPT !.pc = "done",
                  !.res = [status |-> 200,
                           body |-> cleaned(promiseAll(rq.feed, rq.tasks, rq.order))]]
  ELSE rq

\* lines 255-264: the handler continues once Promise.all settles
respond(rq) ==
  IF rq.pc # "gather" THEN rq
  ELSE IF \E i \in 1..Len(rq.tasks) : rq.tasks[i].phase = "rejected"
  THEN [rq EXCEPT !.pc = "done", !.res = serverError("Error: mirror fetch failed")]
  ELSE IF \A i \in 1..Len(rq.tasks) : rq.tasks[i].phase = "settled"
  THEN [rq EXCEPT !.pc = "done",
                  !.res = [status |-> 200,
                           body |-> cleaned(promiseAll(rq.feed, rq.tasks, rq.order))]]
  ELSE rq

\* the request after its tasks became newTasks
withTasks(rq, newTasks) ==
  respond([rq EXCEPT !.tasks = newTasks,
                     !.order = rq.order \o newlySettled(rq.tasks, newTasks, 1)])

\* requests are taken in the order of their numbers
MayStart(r) == req[r].pc = "idle" /\ (IF r = 1 THEN TRUE ELSE req[r-1].pc # "idle")

\* GET /api/announcements arrives: lines 215-220
StartAnnouncements(r) ==
  /\ MayStart(r)
  /\ req' = [req EXCEPT ![r] =
       IF requireEnv(env) # ""
       THEN [@ EXCEPT !.route = "announcements", !.pc = "done",
                      !.res = [status |-> 500, body |-> [error |-> requireEnv(env)]]]
       ELSE [@ EXCEPT !.route = "announcements", !.pc = "upstream", !.upCalls = 1]]
  /\ UNCHANGED <<env, channel, disk, fetches>>

\* the upstream call of GET /api/announcements settles: lines 220-255
UpstreamSettle(r, a) ==
  /\ req[r].pc = "upstream" /\ req[r].route = "announcements"
  /\ IF a.kind = "reject"
     THEN /\ req' = [req EXCEPT ![r] = [@ EXCEPT !.pc = "done", !.up = a,
                                          !.res = serverError("TypeError: fetch failed")]]
          /\ UNCHANGED fetches
     ELSE LET result == discordFetchJson(a) IN
          IF ~result.ok
          THEN /\ req' = [req EXCEPT ![r] = [@ EXCEPT !.pc = "done", !.up = a,
                                               !.res = upstreamError(result)]]
               /\ UNCHANGED fetches
          ELSE LET feed == IF result.data.json = "messages" THEN channel ELSE "none"
                   kept == IF feed = "none" THEN <<>> ELSE KeptOf[feed]
                   tasks == [i \in 1..Len(kept) |-> advance(NewTask, feed, i, disk)]
                   waiting == {i \in 1..Len(kept) : tasks[i].phase = "fetch"}
                   issued == {PairOf(feed, i, tasks[i]) : i \in waiting}
               IN /\ req' = [req EXCEPT ![r] =
                       withTasks([@ EXCEPT !.pc = "gather", !.up = a, !.feed = feed],
                                 tasks)]
                  /\ fetches' = [p \in Pairs |-> fetches[p] + IF p \in issued THEN 1 ELSE 0]
  /\ UNCHANGED <<env, channel, disk>>

\* the request and the fetch history after task i of request r became t; ran says
\* that the task ran on to its next await or to its end
TaskMoved(r, i, t, ran) ==
  LET rq == req[r]
      issued == ran /\ t.phase = "fetch"
  IN /\ req' = [req EXCEPT ![r] =
          withTasks(rq, [rq.tasks EXCEPT ![i] = t])]
     /\ fetches' = IF issued
                   THEN [fetches EXCEPT ![PairOf(rq.feed, i, t)] = @ + 1]
                   ELSE fetches

MirrorFetchOutcomes == {"ok", "rejected", "not_ok"}

\* await fetch(url) of mirrorToLocal settles: lines 76-77
MirrorFetchSettle(r, i, outcome) ==
  /\ i \in 1..Len(req[r].tasks)
  /\ req[r].tasks[i].phase = "fetch"
  /\ LET t == req[r].tasks[i]
         m == KeptOf[req[r].feed][i]
     IN IF outcome = "ok"
        THEN TaskMoved(r, i, [t EXCEPT !.phase = "body"], FALSE)
        ELSE TaskMoved(r, i, advance(mirrorThrew(t, m), req[r].feed, i, disk), TRUE)
  /\ UNCHANGED <<env, channel, disk>>

\* the faulty variant of writeFileSync: nothing is written
writeFileSyncNothing(dsk, name, buf) == dsk

\* line 80: fs.writeFileSync(localPath, buf) when it succeeds
writeFileSync(dsk, name, buf) == [dsk EXCEPT ![name] = buf]

MirrorBodyOutcomes ==
  {[kind |-> "written", bytes |-> b] : b \in Bytes}
  \cup {[kind |-> k] : k \in {"body_rejected", "write_failed", "write_failed_truncated"}}

\* await r.arrayBuffer() settles, then lines 79-82.  A failing write leaves the
\* directory as it was or leaves a truncated file.
MirrorBodySettle(r, i, outcome) ==
  /\ i \in 1..Len(req[r].tasks)
  /\ req[r].tasks[i].phase = "body"
  /\ LET t == req[r].tasks[i]
         m == KeptOf[req[r].feed][i]
         a == m.attachments[t.ai]
         name == KeysOf[req[r].feed][i][t.ai]
         dsk == CASE outcome.kind = "written" ->
                       writeFileSync(disk, name, FileOf(a.url, outcome.bytes))
                  [] outcome.kind = "write_failed_truncated" ->
                       [disk EXCEPT ![name] = PartialFile]
                  [] OTHER -> disk
     IN /\ disk' = dsk
        /\ IF outcome.kind = "written"
           THEN TaskMoved(r, i, advance(mirrorReturned(t, m, name), req[r].feed, i, dsk), TRUE)
           ELSE TaskMoved(r, i, advance(mirrorThrew(t, m), req[r].feed, i, dsk), TRUE)
  /\ UNCHANGED <<env, channel>>

\* GET /api/channel arrives: lines 189-193
StartChannel(r) ==
  /\ MayStart(r)
  /\ req' = [req EXCEPT ![r] =
       IF requireEnv(env) # ""
       THEN [@ EXCEPT !.route = "channel", !.pc = "done",
                      !.res = [status |-> 500, body |-> [error |-> requireEnv(env)]]]
       ELSE [@ EXCEPT !.route = "channel", !.pc = "upstream", !.upCalls = 1]]
  /\ UNCHANGED <<env, channel, disk, fetches>>

\* what becomes of a rejected promise of an async route handler that has no try/catch:
\* Express 4 drops it and the request stays unanswered; Express 5 hands it to the
\* default error handler, which answers 500
UnhandledOutcomes == {"unanswered", "default_error_handler"}

\* the upstream call of GET /api/channel settles: lines 193-211
ChannelSettle(r, a, unhandled) ==
  /\ req[r].pc = "upstream" /\ req[r].route = "channel"
  /\ req' = [req EXCEPT ![r] =
       IF a.kind = "reject"
       THEN IF unhandled = "unanswered"
            THEN [@ EXCEPT !.pc = "unanswered", !.up = a]
            ELSE [@ EXCEPT !.pc = "done", !.up = a,
                           !.res = [status |-> 500, body |-> [html |-> "Internal Server Error"]]]
       ELSE LET result == discordFetchJson(a) IN
            IF ~result.ok
            THEN [@ EXCEPT !.pc = "done", !.up = a, !.res = upstreamError(result)]
            ELSE [@ EXCEPT !.pc = "done", !.up = a,
                           !.res = [status |-> 200, body |-> [channel |-> result.data]]]]
  /\ UNCHANGED <<env, channel, disk, fetches>>

Next ==
  \/ \E r \in Reqs : StartAnnouncements(r)
  \/ \E r \in Reqs : \E a \in UpstreamAnswers : UpstreamSettle(r, a)
  \/ \E r \in Reqs : \E i \in 1..PageLimit : \E o \in MirrorFetchOutcomes :
       MirrorFetchSettle(r, i, o)
  \/ \E r \in Reqs : \E i \in 1..PageLimit : \E o \in MirrorBodyOutcomes :
       MirrorBodySettle(r, i, o)
  \/ \E r \in Reqs : StartChannel(r)
  \/ \E r \in Reqs : \E a \in ChannelAnswers : \E u \in UnhandledOutcomes :
       ChannelSettle(r, a, u)

Spec == Init /\ [][Next]_vars

SpecTwo == InitTwo /\ [][Next]_vars

\* an await of the mirror of request r settles
MirrorSettles(r) ==
  \E i \in 1..PageLimit :
    \/ \E o \in MirrorFetchOutcomes : MirrorFetchSettle(r, i, o)
    \/ \E o \in MirrorBodyOutcomes : MirrorBodySettle(r, i, o)

\* MirrorSettles(r) is enabled exactly when a task of r awaits a fetch or a body
CanSettle(r) == \E i \in 1..Len(req[r].tasks) : req[r].tasks[i].phase \in {"fetch", "body"}

\* weak fairness of MirrorSettles(r), with its enabling condition written out: every
\* fetch and every body read that was dispatched settles, and the event loop runs the
\* continuation of each settled await
FairSettles(r) == []<>~CanSettle(r) \/ []<><<MirrorSettles(r)>>_vars

FairTwo == SpecTwo /\ \A r \in Reqs : FairSettles(r)

----------------------------------------------------------------------------
(* Properties                                                              *)

Announcements(r) == req[r].route = "announcements"

Answered(r) == req[r].pc = "done"

Done200(r) == Announcements(r) /\ Answered(r) /\ req[r].res.status = 200

Kept(r) == KeptOf[req[r].feed]

TaskIds(r) == 1..Len(req[r].tasks)

\* the attachments of the i-th kept message of request r
Atts(r, i) == Kept(r)[i].attachments

\* the announcements of the response of r that stand for its i-th kept message
InBody(r, i) == {n \in 1..Len(req[r].res.body) : req[r].res.body[n].id = Kept(r)[i].id}

\* the local references the mirror calls for local name k have returned so far
Returned(k) ==
  UNION {UNION {{x[2] : x \in {y \in req[r].tasks[i].rets : y[1] = k}} : i \in TaskIds(r)} :
           r \in Reqs}

RECURSIVE SumOver(_, _)
SumOver(f, S) ==
  IF S = {} THEN 0 ELSE LET x == CHOOSE y \in S : TRUE IN f[x] + SumOver(f, S \ {x})

\* the fetches issued so far for local name k
FetchesOfKey(k) == SumOver(fetches, {p \in Pairs : p[1] = k})

(* C1: when the mirror call of an attachment fails (the fetch rejects, the status is
   not a success, the body cannot be read or the write fails), the request is still
   answered 200, never with an error, and the media list of the attachment's message
   holds an item with the attachment's original url. *)
C1_MirrorFailureFallsBack ==
  \A r \in Reqs : \A i \in TaskIds(r) :
    req[r].tasks[i].failed # {} =>
      /\ req[r].res.status \in {0, 200}
      /\ req[r].pc \in {"gather", "done"}
      /\ Answered(r) => req[r].res.status = 200
      /\ \A ai \in req[r].tasks[i].failed :
           /\ \E n \in 1..Len(req[r].tasks[i].out) :
                req[r].tasks[i].out[n].url = Atts(r, i)[ai].url
           /\ Answered(r) =>
                \A b \in InBody(r, i) :
                  \E n \in 1..Len(req[r].res.body[b].media) :
                    req[r].res.body[b].media[n].url = Atts(r, i)[ai].url

\* a 200 response whose announcement carries the original url of an attachment whose
\* write failed and left a truncated file
C1_Witness ==
  \E r \in Reqs : \E i \in TaskIds(r) : \E ai \in req[r].tasks[i].failed :
    /\ Done200(r)
    /\ disk[KeysOf[req[r].feed][i][ai]] = PartialFile
    /\ \E b \in InBody(r, i) : \E n \in 1..Len(req[r].res.body[b].media) :
         req[r].res.body[b].media[n].url = Atts(r, i)[ai].url

(* C2: once a mirror call for a (messageId, filename) pair has returned a local
   reference, every later call for the pair returns the same reference and issues no
   fetch: no step adds a fetch for the pair or another reference. *)
C2_MirrorIdempotent ==
  [][\A k \in Keys :
       Returned(k) # {} =>
         /\ \A p \in Pairs : p[1] = k => fetches'[p] = fetches[p]
         /\ Returned(k)' = Returned(k)
         /\ Returned(k) = {localRef(k)}]_vars

\* two requests were answered 200 with the same /downloads url for the attachment of
\* MsgA, the second one out of the existing file, and one fetch was issued in all
C2_Witness ==
  /\ channel = "one"
  /\ \A r \in {1, 2} :
       /\ Done200(r)
       /\ req[r].feed = "one"
       /\ req[r].res.body[1].media[1].url = localRef(KeysOf["one"][1][1])
  /\ FetchesOfKey(KeysOf["one"][1][1]) = 1

\* the upstream answered the message-list call of r with a non-success status
UpstreamFailed(r) ==
  Announcements(r) /\ req[r].up.kind = "http" /\ ~IsOk(req[r].up.status)

\* C3 as stated: every non-success upstream status s, with any body, is answered
\* with status s and an error body that carries the upstream body
C3_Original ==
  \A r \in Reqs :
    UpstreamFailed(r) =>
      /\ Answered(r)
      /\ req[r].res.status = req[r].up.status
      /\ req[r].res.body.error = "Discord API error"

(* C3 as amended: a non-success upstream status s is answered with status s when the
   body is JSON or empty and with 502 when the body is not JSON; the error body
   carries the upstream body (parsed, or raw under details.raw); the answer is never
   a 200; the request dispatches no media gathering and its steps leave the mirror
   directory and the fetch history as they were. *)
C3_UpstreamErrorForwarded ==
  [][\A r \in Reqs :
       (UpstreamFailed(r))' =>
         /\ (Answered(r))'
         /\ req'[r].res.body.error = "Discord API error"
         /\ req'[r].res.body.status = req'[r].res.status
         /\ req'[r].tasks = <<>>
         /\ IF req'[r].up.raw = "nonjson"
            THEN /\ req'[r].res.status = 502
                 /\ req'[r].res.body.details.raw = req'[r].up.raw
            ELSE /\ req'[r].res.status = req'[r].up.status
                 /\ req'[r].res.body.details =
                      [json |-> IF req'[r].up.raw = "empty" THEN "null" ELSE req'[r].up.raw]
         /\ req'[r] # req[r] => (disk' = disk /\ fetches' = fetches)]_vars

\* a 404 with a JSON body answered 404, and a 404 with a body that is no JSON
\* answered 502
C3_Witness ==
  \E r, q \in Reqs :
    /\ UpstreamFailed(r) /\ req[r].up.raw = "object" /\ req[r].res.status = 404
    /\ UpstreamFailed(q) /\ req[q].up.raw = "nonjson" /\ req[q].res.status = 502

(* C4: with the bot token or the channel id missing, GET /api/announcements answers
   500 with an error naming a missing item, without any upstream call, mirror fetch
   or file write. *)
C4_MissingConfiguration ==
  (~env.token \/ ~env.channel) =>
    /\ \A r \in Reqs :
         Announcements(r) =>
           /\ Answered(r)
           /\ req[r].res.status = 500
           /\ \/ req[r].res.body.error = "Missing DISCORD_BOT_TOKEN" /\ ~env.token
              \/ req[r].res.body.error = "Missing DISCORD_CHANNEL_ID" /\ ~env.channel
           /\ req[r].upCalls = 0
           /\ req[r].up.kind = "none"
           /\ req[r].tasks = <<>>
    /\ \A k \in Keys : disk[k] = NoFile
    /\ \A p \in Pairs : fetches[p] = 0

\* the channel id alone is missing and a feed request was answered 500 naming it
C4_Witness ==
  /\ env.token /\ ~env.channel
  /\ \E r \in Reqs :
       /\ Announcements(r) /\ Answered(r)
       /\ req[r].res.body.error = "Missing DISCORD_CHANNEL_ID"

\* C5 as stated: on both endpoints a request whose upstream fetch rejected is
\* answered by the handler's catch: 500, "Server error", with a detail
C5_Claim ==
  \A r \in Reqs :
    req[r].up.kind = "reject" =>
      /\ Answered(r)
      /\ req[r].res.status = 500
      /\ DOMAIN req[r].res.body = {"error", "details"}
      /\ req[r].res.body.error = "Server error"

\* the kept messages of r whose announcement has content or media
Survivors(r) ==
  {i \in TaskIds(r) : Len(ContentsOf[req[r].feed][i]) > 0 \/ Len(req[r].tasks[i].out) > 0}

\* the n-th survivor in upstream order
NthSurvivor(r, n) ==
  CHOOSE i \in Survivors(r) : Cardinality({j \in Survivors(r) : j < i}) = n - 1

(* C6: a 200 response holds exactly the first min(8, k) of the k surviving
   announcements, in the order of the upstream array, whatever the order in which
   the media gathering of the messages completed. *)
C6_FirstEightInUpstreamOrder ==
  \A r \in Reqs :
    Done200(r) =>
      /\ Len(req[r].res.body) = Min(MaxAnnouncements, Cardinality(Survivors(r)))
      /\ \A n \in 1..Len(req[r].res.body) :
           /\ req[r].res.body[n].id = Kept(r)[NthSurvivor(r, n)].id
           /\ req[r].res.body[n].media = req[r].tasks[NthSurvivor(r, n)].out

\* a 200 response of 8 announcements out of 20 survivors, led by the first message,
\* whose task completed last, after that of the 20th message
C6_Witness ==
  \E r \in Reqs :
    /\ Done200(r) /\ req[r].feed = "twenty"
    /\ Cardinality(Survivors(r)) = PageLimit /\ Len(req[r].res.body) = MaxAnnouncements
    /\ req[r].order[PageLimit - 1] = PageLimit /\ req[r].order[PageLimit] = 1
    /\ req[r].res.body[1].id = MsgC.id

(* C7: no announcement of a 200 response has both an empty content and an empty
   media list; a kept message with blank content, no embeds and no attachments is
   not in the response. *)
C7_NoEmptyAnnouncement ==
  \A r \in Reqs :
    Done200(r) =>
      /\ \A n \in 1..Len(req[r].res.body) :
           ~(req[r].res.body[n].content = <<>> /\ req[r].res.body[n].media = <<>>)
      /\ \A i \in TaskIds(r) :
           (/\ Trim(Kept(r)[i].content) = <<>>
            /\ Kept(r)[i].embeds = <<>>
            /\ Kept(r)[i].attachments = <<>>) => InBody(r, i) = {}

\* MsgEmpty passed the first filter and the 200 response has other announcements, not it
C7_Witness ==
  \E r \in Reqs : \E i \in TaskIds(r) :
    /\ Done200(r) /\ req[r].feed = "mix"
    /\ Kept(r)[i] = MsgEmpty
    /\ InBody(r, i) = {}
    /\ Len(req[r].res.body) > 0

\* C8 as stated: once a mirror file exists, no step changes its content or removes it
C8_Claim ==
  [][\A k \in Keys : disk[k] # NoFile => disk'[k] = disk[k]]_vars

\* the media items of task t that came from attachment ai
ItemsOfAttachment(t, ai) == {n \in 1..Len(t.out) : t.origin[n] = <<"attachment", ai>>}

\* the content-type of attachment a is present and neither image/* nor video/*
OtherContentType(a) ==
  /\ a.content_type # <<>>
  /\ ~StartsWith(ToLower(a.content_type), ImagePrefix)
  /\ ~StartsWith(ToLower(a.content_type), VideoPrefix)

\* C9 as stated: an attachment with a content-type that is neither image/* nor
\* video/* has type "file", whatever the extension of its url
C9_Original ==
  \A r \in Reqs : \A i \in TaskIds(r) : \A ai \in 1..Len(Atts(r, i)) :
    OtherContentType(Atts(r, i)[ai]) =>
      \A n \in ItemsOfAttachment(req[r].tasks[i], ai) : req[r].tasks[i].out[n].type = "file"

(* C9 as amended: the content-type and the extension of the original url decide
   together, whether or not a content-type is present: an image/* content-type or an
   image extension gives "image" ("gif" for image/gif or .gif), else a video/*
   content-type or a video extension gives "video", else "file".  An attachment whose
   content-type is neither image/* nor video/* has type "file" only when its url has
   neither an image nor a video extension. *)
C9_TypeOrExtension ==
  \A r \in Reqs : \A i \in TaskIds(r) : \A ai \in 1..Len(Atts(r, i)) :
    \A n \in ItemsOfAttachment(req[r].tasks[i], ai) :
      LET a == Atts(r, i)[ai]
          ct == ToLower(a.content_type)
          type == req[r].tasks[i].out[n].type
          imageExt == ExtTest(a.url, ImageExts)
          videoExt == ExtTest(a.url, VideoExts)
      IN /\ OtherContentType(a) => (type = "file" <=> ~imageExt /\ ~videoExt)
         /\ StartsWith(ct, ImagePrefix) \/ imageExt <=> type \in {"image", "gif"}
         /\ type = "gif" <=> (StartsWith(ct, ImagePrefix) \/ imageExt)
                              /\ (ct = ImageGif \/ ExtTest(a.url, GifExts))
         /\ type = "video" <=>
              ~(StartsWith(ct, ImagePrefix) \/ imageExt)
              /\ (StartsWith(ct, VideoPrefix) \/ videoExt)

\* the attachment of MsgC, a text content-type with a .png url, is in a 200 response
\* as an "image"
C9_Witness ==
  \E r \in Reqs : \E i \in TaskIds(r) :
    /\ Done200(r) /\ Kept(r)[i] = MsgC
    /\ OtherContentType(Atts(r, i)[1])
    /\ \E b \in InBody(r, i) : req[r].res.body[b].media[1].type = "image"

\* the media items of task t that came from embed j
ItemsOfEmbed(t, j) == {n \in 1..Len(t.out) : t.origin[n] = <<"embed", j>>}

\* the tasks that have returned
Settled(r, i) == req[r].tasks[i].phase = "settled"

\* C10 as stated: every embed with a video url contributes exactly one media item
C10_Original ==
  \A r \in Reqs : \A i \in TaskIds(r) : \A j \in 1..Len(Kept(r)[i].embeds) :
    (Settled(r, i) /\ Kept(r)[i].embeds[j].video # <<>>) =>
      Cardinality(ItemsOfEmbed(req[r].tasks[i], j)) = 1

(* C10 as amended: an embed with a video url contributes one media item, of type
   "video" with that url, unless that url is already in the media list, and then it
   contributes none; its image and its thumbnail are not added.  An announcement
   without attachments whose single embed has a video url and an image yields exactly
   one media item. *)
C10_VideoEmbed ==
  \A r \in Reqs : \A i \in TaskIds(r) : \A j \in 1..Len(Kept(r)[i].embeds) :
    LET t == req[r].tasks[i]
        e == Kept(r)[i].embeds[j]
        mine == ItemsOfEmbed(t, j)
    IN (Settled(r, i) /\ e.video # <<>>) =>
         /\ Cardinality(mine) <= 1
         /\ \A n \in mine : t.out[n] = [url |-> e.video, type |-> "video"]
         /\ mine = {} <=> \E n \in 1..Len(t.out) :
                            t.out[n].url = e.video /\ t.origin[n] # <<"embed", j>>
         /\ Cardinality({n \in 1..Len(t.out) : t.out[n].url = e.video}) = 1
         /\ (Len(Kept(r)[i].embeds) = 1 /\ Atts(r, i) = <<>>) => Len(t.out) = 1

\* the announcement of MsgV, one embed with video, image and thumbnail, has the video
\* as its one media item
C10_Witness ==
  \E r \in Reqs : \E i \in TaskIds(r) :
    /\ Done200(r) /\ Kept(r)[i] = MsgV
    /\ \E b \in InBody(r, i) :
         req[r].res.body[b].media = <<[url |-> UrlV, type |-> "video"]>>

----------------------------------------------------------------------------
(* sanitizeContent over every escaped mention token with a short numeric id *)

\* the longest numeric id the tables below cover
MaxIdLen == 2

RECURSIVE DigitStrings(_)
DigitStrings(n) ==
  IF n = 0 THEN {<<>>}
  ELSE LET shorter == DigitStrings(n - 1)
       IN shorter \cup {Append(s, d) : s \in {x \in shorter : Len(x) = n - 1}, d \in DigitChars}

\* the numeric ids of one to MaxIdLen digits
NumericIds == DigitStrings(MaxIdLen) \ {<<>>}

\* the mention tokens and what the claim says each becomes
TokenKinds == {[sigil |-> <<"@">>, shown |-> AtUser],
               [sigil |-> <<"@","!">>, shown |-> AtUser],
               [sigil |-> <<"@","&">>, shown |-> AtRole],
               [sigil |-> <<"#">>, shown |-> HashChannel]}

\* sanitizeContent applied to every escaped token
SanitizedTokens ==
  [k \in TokenKinds |-> [id \in NumericIds |-> sanitizeContent(EscapedToken(k.sigil, id))]]

\* every escaped token sanitizes to the text of its kind
TokensShown ==
  \A k \in TokenKinds : \A id \in NumericIds : SanitizedTokens[k][id] = k.shown

\* the raw content of message m is one escaped token of kind k
IsEscapedToken(m, k) ==
  /\ StartsWith(m.content, EscLt \o k.sigil)
  /\ Len(m.content) > Len(EscLt) + Len(k.sigil) + Len(EscGt)
  /\ LET idPart == SubSeq(m.content, Len(EscLt) + Len(k.sigil) + 1, Len(m.content) - Len(EscGt))
     IN /\ Range(idPart) \subseteq DigitChars
        /\ m.content = EscapedToken(k.sigil, idPart)

(* C11: sanitizeContent undoes the escapes \u003c and \u003e before it replaces
   mention tokens: for every numeric id the escaped user, nickname, role and channel
   tokens sanitize to @user, @user, @role and #channel, and a message whose content is
   such a token is shown with that text in the response, with no raw mention syntax
   left. *)
C11_UnescapeBeforeMentions ==
  /\ TokensShown
  /\ \A r \in Reqs : \A i \in TaskIds(r) : \A k \in TokenKinds :
       (Done200(r) /\ IsEscapedToken(Kept(r)[i], k)) =>
         /\ InBody(r, i) # {}
         /\ \A b \in InBody(r, i) : req[r].res.body[b].content = k.shown

\* a 200 response shows the message \u003c@123\u003e as @user, the escaped role token
\* as @role and the escaped channel token as #channel
C11_Witness ==
  \E r \in Reqs :
    /\ Done200(r) /\ req[r].feed = "mentions"
    /\ Kept(r)[1].content = EscLt \o <<"@","1","2","3">> \o EscGt
    /\ req[r].res.body[1].content = AtUser
    /\ req[r].res.body[3].content = AtRole
    /\ req[r].res.body[4].content = HashChannel

----------------------------------------------------------------------------
(* Concurrent mirror calls                                                 *)

\* the mirror call of attachment ai of task i of request r has returned or thrown
CallEnded(r, i, ai) == ai < req[r].tasks[i].ai

\* that call downloaded the file itself: it issued a fetch and did not throw
Downloaded(r, i, ai) ==
  /\ CallEnded(r, i, ai)
  /\ ai \in req[r].tasks[i].fetched
  /\ ai \notin req[r].tasks[i].failed

\* the item of attachment ai of task i of request r was added under url u
AddedAs(r, i, ai, u) ==
  \E n \in ItemsOfAttachment(req[r].tasks[i], ai) : req[r].tasks[i].out[n].url = u

(* C12: two first-time mirror calls for the same (messageId, filename), made by
   overlapping requests, can both pass the existence check and both fetch and write.
   Whenever two calls of different requests for the same local name both downloaded
   (each issued its own fetch, whose response was a success, read and written), both
   returned the same local reference /downloads/<name> and the directory holds one
   file under that name. *)
C12_ConcurrentFirstMirror ==
  \A r1, r2 \in Reqs : \A i \in TaskIds(r1) \cap TaskIds(r2) :
    \A a1, a2 \in 1..Len(Atts(r1, i)) :
      (/\ r1 # r2
       /\ req[r1].feed = req[r2].feed
       /\ KeysOf[req[r1].feed][i][a1] = KeysOf[req[r2].feed][i][a2]
       /\ Downloaded(r1, i, a1) /\ Downloaded(r2, i, a2)) =>
        LET k == KeysOf[req[r1].feed][i][a1]
        IN /\ <<k, localRef(k)>> \in req[r1].tasks[i].rets \cap req[r2].tasks[i].rets
           /\ Returned(k) = {localRef(k)}
           /\ disk[k] # NoFile
           /\ FetchesOfKey(k) >= 2

\* two overlapping requests both fetched and wrote the upload of MsgA, and both were
\* answered 200 with the same /downloads url
C12_Witness ==
  /\ channel = "one"
  /\ \A r \in {1, 2} :
       /\ Done200(r) /\ req[r].feed = "one"
       /\ Downloaded(r, 1, 1)
       /\ req[r].res.body[1].media[1].url = localRef(KeysOf["one"][1][1])
  /\ fetches[<<KeysOf["one"][1][1], UrlA>>] = 2
  /\ disk[KeysOf["one"][1][1]].kind = "full"

----------------------------------------------------------------------------
(* Failing mirror calls                                                    *)

\* the positions an attachment can have in a message of the channel
AttachmentIds == UNION {DOMAIN m.attachments : m \in AllMessages}

\* the mirror calls that issued a fetch of pair p
FetchingCalls(p) ==
  {c \in Reqs \X (1..PageLimit) \X AttachmentIds :
     /\ c[2] \in TaskIds(c[1])
     /\ c[3] \in req[c[1]].tasks[c[2]].fetched
     /\ <<KeysOf[req[c[1]].feed][c[2]][c[3]], Atts(c[1], c[2])[c[3]].url>> = p}

(* C13: when the fetch of a mirror call rejects or is answered with a non-success
   status, the call throws after its one fetch: the step neither issues another fetch
   of that url nor creates or changes a file, and over all calls the fetches of a url
   are one per call that fetched.  As the directory is left as it was, a mirror call
   made while the file is still absent performs the fetch again. *)
C13_FetchFailureLeavesNoFile ==
  [][/\ \A r \in Reqs : \A i \in TaskIds(r) :
          (/\ req[r].tasks[i].phase = "fetch"
           /\ req'[r].tasks[i] # req[r].tasks[i]
           /\ req'[r].tasks[i].phase # "body") =>
            LET ai == req[r].tasks[i].ai
                pair == PairOf(req[r].feed, i, req[r].tasks[i])
            IN /\ ai \in req'[r].tasks[i].failed
               /\ disk' = disk
               /\ fetches'[pair] = fetches[pair]
               /\ Cardinality(ItemsOfAttachment(req'[r].tasks[i], ai)) <= 1
               /\ \A n \in ItemsOfAttachment(req'[r].tasks[i], ai) :
                    req'[r].tasks[i].out[n].url = Atts(r, i)[ai].url
     /\ \A pr \in Pairs : fetches'[pr] = Cardinality(FetchingCalls(pr))'
     /\ \A r \in Reqs : \A i \in 1..Len(req'[r].tasks) :
          \A n \in 1..Len(req'[r].tasks[i].calls) :
            (/\ (i > Len(req[r].tasks) \/ n > Len(req[r].tasks[i].calls))
             /\ disk'[KeysOf[req'[r].feed][i][n]] = NoFile) =>
              n \in req'[r].tasks[i].fetched]_vars

\* the fetch of the first request for the upload of MsgA failed, the request was
\* answered with the original url, no file exists, and the second request is fetching
\* the same url again
C13_Witness ==
  /\ channel = "one"
  /\ Done200(1) /\ req[1].feed = "one" /\ req[1].tasks[1].failed = {1}
  /\ req[1].res.body[1].media[1].url = UrlA
  /\ disk[KeysOf["one"][1][1]] = NoFile
  /\ req[2].pc = "gather" /\ req[2].feed = "one" /\ req[2].tasks[1].phase = "fetch"
  /\ fetches[<<KeysOf["one"][1][1], UrlA>>] = 2

----------------------------------------------------------------------------
(* The response waits for the media gathering                              *)

Gathering(r) == Announcements(r) /\ req[r].pc = "gather"

\* task i of request r awaits a fetch or a body
Waiting(r, i) == req[r].tasks[i].phase \in {"fetch", "body"}

(* C14: GET /api/announcements sends no response while the media gathering of a kept
   message is unsettled: a request with a task that awaits its mirror stays
   unanswered, and an answered request that gathered has all its tasks settled.  A
   step of one task leaves the sibling tasks of the request as they are, so a mirror
   fetch that does not settle aborts none of them.  When every dispatched fetch and
   body read settles, every gathering request is eventually answered 200. *)
C14_ResponseWaitsForAll ==
  /\ [](\A r \in Reqs :
          /\ Gathering(r) =>
               /\ req[r].res = NoRes
               /\ \E i \in TaskIds(r) : Waiting(r, i)
          /\ \A i \in TaskIds(r) : Waiting(r, i) => Gathering(r)
          /\ Done200(r) => \A i \in TaskIds(r) : Settled(r, i))
  /\ [][\A r \in Reqs : \A i, j \in TaskIds(r) :
          (/\ i # j
           /\ Len(req'[r].tasks) = Len(req[r].tasks)
           /\ req'[r].tasks[i] # req[r].tasks[i]) =>
            req'[r].tasks[j] = req[r].tasks[j]]_vars
  /\ \A r \in Reqs : Gathering(r) ~> Done200(r)

\* the mirror fetch of the first message is still pending and the request unanswered,
\* while the sibling message's upload has been fetched, written and its task settled
C14_Witness ==
  \E r \in Reqs :
    /\ Gathering(r) /\ req[r].feed = "two"
    /\ req[r].tasks[1].phase = "fetch"
    /\ Settled(r, 2) /\ Downloaded(r, 2, 1)
    /\ req[r].res = NoRes

----------------------------------------------------------------------------
(* The media list of an announcement                                       *)

RECURSIVE Flatten(_)
Flatten(seqs) == IF seqs = <<>> THEN <<>> ELSE Head(seqs) \o Flatten(Tail(seqs))

\* the url the mirror call of attachment ai of task i of request r resolved to
ResolvedUrl(r, i, ai) ==
  IF ai \in req[r].tasks[i].failed THEN Atts(r, i)[ai].url
  ELSE localRef(KeysOf[req[r].feed][i][ai])

\* the candidates of the i-th kept message of r in encounter order: its attachments
\* in order, then what its embeds offer in order
Candidates(r, i) ==
  [ai \in 1..Len(Atts(r, i)) |-> attachmentItem(Atts(r, i)[ai], ResolvedUrl(r, i, ai))]
  \o Flatten([j \in 1..Len(Kept(r)[i].embeds) |-> embedItems(Kept(r)[i].embeds[j])])

\* the sequence c without the items whose url occurred earlier in c
FirstOccurrences(c) ==
  LET first == {n \in 1..Len(c) : \A k \in 1..(n - 1) : c[k].url # c[n].url}
      g[n \in 0..Len(c)] ==
        IF n = 0 THEN <<>>
        ELSE IF n \in first THEN Append(g[n - 1], c[n]) ELSE g[n - 1]
  IN g[Len(c)]

(* C15: in the media list of every announcement no two items have the same url, and
   the list is the sequence of the message's candidates in encounter order (its
   attachments in order, then its embeds in order) without the candidates whose url
   occurred earlier: the first occurrence of a url stays. *)
C15_MediaDedupInOrder ==
  \A r \in Reqs : \A i \in TaskIds(r) :
    Settled(r, i) =>
      LET media == req[r].tasks[i].out
      IN /\ \A n, k \in 1..Len(media) : n # k => media[n].url # media[k].url
         /\ media = FirstOccurrences(Candidates(r, i))
         /\ Done200(r) => \A b \in InBody(r, i) : req[r].res.body[b].media = media

\* the mirror of the upload of MsgD failed: its original url stays, the embed that
\* offers the same url is dropped and the later embed is kept after it
C15_Witness ==
  \E r \in Reqs :
    /\ Done200(r) /\ req[r].feed = "both"
    /\ Len(Candidates(r, 1)) = 3
    /\ req[r].res.body[1].media =
         <<[url |-> UrlD, type |-> "image"], [url |-> UrlT, type |-> "image"]>>

----------------------------------------------------------------------------
(* Embeds are not mirrored                                                 *)

\* the urls embed e carries
EmbedUrls(e) == {e.video, e.image, e.thumbnail} \ {<<>>}

\* task i of request r awaits the body of the upload whose local name is k
WritesTo(r, i, k) ==
  /\ req[r].tasks[i].phase = "body"
  /\ KeysOf[req[r].feed][i][req[r].tasks[i].ai] = k

(* C16: the mirror is called once for each attachment of a kept message, in order,
   and for nothing else: the calls of a settled task are its attachments, one call
   each.  Every media item that came from an embed has a url the embed carries, as
   it is, and no /downloads url.  The directory changes only in the step that ends
   the body read of an attachment, under that attachment's local name: handling
   embeds changes no file. *)
C16_EmbedsBypassMirror ==
  [][/\ \A r \in Reqs : \A i \in 1..Len(req'[r].tasks) :
          LET t == req'[r].tasks[i]
              m == KeptOf[req'[r].feed][i]
          IN /\ \A n \in 1..Len(t.calls) : t.calls[n] = <<"attachment", n>>
             /\ Len(t.calls) <= Len(m.attachments)
             /\ t.phase = "settled" => Len(t.calls) = Len(m.attachments)
             /\ \A j \in 1..Len(m.embeds) : \A n \in ItemsOfEmbed(t, j) :
                  /\ t.out[n].url \in EmbedUrls(m.embeds[j])
                  /\ ~StartsWith(t.out[n].url, DownloadsPrefix)
     /\ \A k \in Keys :
          disk'[k] # disk[k] => \E r \in Reqs : \E i \in TaskIds(r) : WritesTo(r, i, k)
     /\ \A p \in Pairs :
          fetches'[p] # fetches[p] =>
            \E m \in AllMessages : \E ai \in 1..Len(m.attachments) :
              m.attachments[ai].url = p[2]]_vars

\* MsgD in a 200 response: one mirror call, for its upload, whose item has the local
\* url; the two embeds follow with their own urls
C16_Witness ==
  \E r \in Reqs :
    /\ Done200(r) /\ req[r].feed = "both"
    /\ req[r].tasks[1].calls = <<<<"attachment", 1>>>>
    /\ FetchesOfKey(KeysOf["both"][1][1]) = 1
    /\ req[r].res.body[1].media =
         <<[url |-> localRef(KeysOf["both"][1][1]), type |-> "image"],
           [url |-> UrlD, type |-> "image"],
           [url |-> UrlT, type |-> "image"]>>

----------------------------------------------------------------------------
(* Local names of different messages                                       *)

\* message ids for the table below: the numeric ids made of these digits
SampleIds == {id \in NumericIds : Range(id) \subseteq {"1", "2"}}

\* filenames that repeat, sanitize to one string, begin like an id or are empty
SampleNames ==
  {NameA, <<"x"," ","y",".","g","i","f">>, <<"x","_","y",".","g","i","f">>,
   <<"2","-","a",".","p","n","g">>, <<"-","2">>, <<"1">>, <<"_">>, <<>>}

\* the local name of every sample attachment
SampleLocalNames ==
  [id \in SampleIds |-> [f \in SampleNames |-> localName(UrlA, id, attName([filename |-> f]))]]

\* sample attachments of two ids never have one local name
SampleNamesDiffer ==
  \A id1, id2 \in SampleIds : \A f1, f2 \in SampleNames :
    id1 # id2 => SampleLocalNames[id1][f1] # SampleLocalNames[id2][f2]

\* the kept messages of r and their attachments, as <<task, attachment>>
Uploads(r) == {u \in TaskIds(r) \X AttachmentIds : u[2] <= Len(Atts(r, u[1]))}

(* C17: attachments of messages with different ids never have the same local name,
   whatever their filenames: over the sample ids and filenames the local names of
   two ids differ, and in every request the uploads of two messages have two local
   names, so that each downloaded upload is in a file of its own. *)
C17_NoCollisionAcrossMessages ==
  /\ SampleNamesDiffer
  /\ \A r \in Reqs : \A u, v \in Uploads(r) :
       Kept(r)[u[1]].id # Kept(r)[v[1]].id =>
         LET ku == KeysOf[req[r].feed][u[1]][u[2]]
             kv == KeysOf[req[r].feed][v[1]][v[2]]
         IN /\ ku # kv
            /\ (Downloaded(r, u[1], u[2]) /\ disk[ku].kind = "full") =>
                 disk[ku].url = Atts(r, u[1])[u[2]].url

\* MsgD and MsgF both carry a.png: both were downloaded in one request, into two
\* files, and the response has two different /downloads urls
C17_Witness ==
  \E r \in Reqs :
    /\ Done200(r) /\ req[r].feed = "two"
    /\ Atts(r, 1)[1].filename = Atts(r, 2)[1].filename
    /\ Downloaded(r, 1, 1) /\ Downloaded(r, 2, 1)
    /\ disk[KeysOf["two"][1][1]].kind = "full" /\ disk[KeysOf["two"][2][1]].kind = "full"
    /\ disk[KeysOf["two"][1][1]].url = UrlD /\ disk[KeysOf["two"][2][1]].url = UrlM
    /\ req[r].res.body[1].media[1].url # req[r].res.body[2].media[1].url

----------------------------------------------------------------------------
(* Local urls in responses                                                 *)

IsLocalUrl(u) == StartsWith(u, DownloadsPrefix)

\* the <name> of /downloads/<name>
NameOfLocalUrl(u) == SubSeq(u, Len(DownloadsPrefix) + 1, Len(u))

(* C18: every media url /downloads/<name> of a 200 response of GET /api/announcements
   names a file that is in the directory, in the state the response is sent in and
   in every state after it; the item of an attachment whose mirror call failed never
   has a local url, it has the attachment's original url. *)
C18_LocalUrlsNameFiles ==
  \A r \in Reqs :
    /\ Done200(r) =>
         \A n \in 1..Len(req[r].res.body) : \A x \in 1..Len(req[r].res.body[n].media) :
           LET u == req[r].res.body[n].media[x].url
           IN IsLocalUrl(u) =>
                /\ NameOfLocalUrl(u) \in Keys
                /\ disk[NameOfLocalUrl(u)] # NoFile
    /\ \A i \in TaskIds(r) : \A ai \in req[r].tasks[i].failed :
         \A n \in ItemsOfAttachment(req[r].tasks[i], ai) :
           /\ ~IsLocalUrl(req[r].tasks[i].out[n].url)
           /\ req[r].tasks[i].out[n].url = Atts(r, i)[ai].url

\* one request answered with the /downloads url of a file that is there, another
\* one, whose fetch failed, answered with the original url
C18_Witness ==
  \E r, q \in Reqs :
    /\ Done200(r) /\ Done200(q) /\ req[r].feed = "one" /\ req[q].feed = "one"
    /\ IsLocalUrl(req[r].res.body[1].media[1].url)
    /\ disk[NameOfLocalUrl(req[r].res.body[1].media[1].url)].kind = "full"
    /\ req[q].tasks[1].failed = {1}
    /\ req[q].res.body[1].media[1].url = UrlA

----------------------------------------------------------------------------
(* Attachments of one message whose filenames sanitize alike               *)

\* per upstream array and kept message: the pairs of attachments, in order, whose
\* filenames sanitize to the same string
SameSanitized ==
  [f \in FeedNames |-> [i \in 1..Len(KeptOf[f]) |->
     LET atts == KeptOf[f][i].attachments
     IN {p \in (DOMAIN atts) \X (DOMAIN atts) :
           /\ p[1] < p[2]
           /\ safeFilename(attName(atts[p[1]])) = safeFilename(attName(atts[p[2]]))}]]

\* the media items of announcement n of the response of r whose url is in U
ItemsWithUrl(r, n, U) ==
  {x \in 1..Len(req[r].res.body[n].media) : req[r].res.body[n].media[x].url \in U}

(* C19: two attachments of one message whose filenames sanitize to the same string
   have the same local name; once the mirror call of the first has returned the
   local url, the call of the second finds the file, fetches nothing and fails not,
   add drops its item, and the message's media list, in the task and in the
   response, has exactly one item for the two: the local url. *)
C19_SameNameSharesFile ==
  \A r \in Reqs : \A i \in TaskIds(r) : \A p \in SameSanitized[req[r].feed][i] :
    LET t == req[r].tasks[i]
        k == KeysOf[req[r].feed][i]
    IN /\ k[p[1]] = k[p[2]]
       /\ (CallEnded(r, i, p[2]) /\ p[1] \notin t.failed) =>
            /\ p[2] \notin t.fetched
            /\ p[2] \notin t.failed
            /\ ItemsOfAttachment(t, p[2]) = {}
            /\ \E n \in 1..Len(t.out) :
                  /\ ItemsOfAttachment(t, p[1]) = {n}
                  /\ t.out[n].url = localRef(k[p[1]])
            /\ Done200(r) =>
                 \A n \in InBody(r, i) :
                   /\ Cardinality(ItemsWithUrl(r, n, {localRef(k[p[1]])})) = 1
                   /\ ItemsWithUrl(r, n, {Atts(r, i)[p[1]].url, Atts(r, i)[p[2]].url}) = {}

\* the message with "x y.gif" and "x_y.gif" answered: the first attachment was
\* downloaded, the second was not fetched, and the media list has one gif
C19_Witness ==
  \E r \in Reqs :
    /\ Done200(r) /\ req[r].feed = "mix"
    /\ Kept(r)[1] = MsgB
    /\ SameSanitized["mix"][1] = {<<1, 2>>}
    /\ req[r].tasks[1].fetched = {1}
    /\ req[r].tasks[1].failed = {}
    /\ req[r].tasks[1].calls = <<<<"attachment", 1>>, <<"attachment", 2>>>>
    /\ req[r].res.body[1].id = MsgB.id
    /\ req[r].res.body[1].media = <<[url |-> localRef(KeyOf(MsgB, MsgB.attachments[1])),
                                     type |-> "gif"]>>

----------------------------------------------------------------------------
(* Mirroring and the truncation of the response                            *)

\* per upstream array: the positions of the messages that pass the first filter
Passing ==
  [f \in FeedNames |-> {j \in 1..Len(FeedOf(f)) : keepMessage(FeedOf(f)[j])}]

\* the mirror calls of a message with n attachments, in order
AllCalls(n) == [ai \in 1..n |-> <<"attachment", ai>>]

\* the response of r has no announcement for its i-th kept message
NotReturned(r, i) == InBody(r, i) = {}

(* C20: a request of GET /api/announcements runs one task per message that passes
   the first filter, and when it answers 200 each task has called the mirror for
   every attachment of its message, whether or not the message is in the response;
   a download such a call completed has left a file, also for a message that the
   slice to 8 entries removed. *)
C20_MirrorsBeyondTruncation ==
  \A r \in Reqs :
    (Announcements(r) /\ req[r].pc \in {"gather", "done"} /\ req[r].feed # "none") =>
      /\ Len(req[r].tasks) = Cardinality(Passing[req[r].feed])
      /\ Len(req[r].tasks) <= PageLimit
      /\ Done200(r) =>
           \A i \in TaskIds(r) :
             /\ req[r].tasks[i].calls = AllCalls(Len(Atts(r, i)))
             /\ \A ai \in DOMAIN Atts(r, i) :
                  Downloaded(r, i, ai) => disk[KeysOf[req[r].feed][i][ai]] # NoFile

\* the tenth kept message is not in the 8 announcements of the response, and the
\* request has downloaded its attachment into the directory
C20_Witness ==
  \E r \in Reqs :
    /\ Done200(r) /\ req[r].feed = "tail"
    /\ Len(req[r].res.body) = MaxAnnouncements
    /\ Kept(r)[TailLen] = MsgF
    /\ NotReturned(r, TailLen)
    /\ Downloaded(r, TailLen, 1)
    /\ disk[KeyOf(MsgF, MsgF.attachments[1])].kind = "full"

====
